---- MODULE Spec2Model ----
(***************************************************************************)
(* Chrome Fleet (src/chromefleet.py): a FastAPI service that launches      *)
(* Chromium containers through podman, joins them to Tailscale, and        *)
(* relays CDP / VNC traffic to them.                                       *)
(*                                                                         *)
(* Six specifications share this module:                                   *)
(*   Spec       - the HTTP handlers of /api/v1/browsers against the podman *)
(*                runtime and the tailscale agent;                         *)
(*   SpecAttach - concurrent connect calls for one running browser;        *)
(*   SpecLive   - concurrent session-scoped requests for one browser whose *)
(*                container may be removed;                                *)
(*   SpecRelay  - websocket_proxy and websockify_proxy, one tunnel;        *)
(*   SpecFind   - find_browser_id scanning the container enumeration;      *)
(*   SpecTunnel - the websocket endpoints, from the handshake to the       *)
(*                backend connection.                                      *)
(*                                                                         *)
(* run_podman is synchronous (subprocess.run), so a handler runs without   *)
(* interleaving from one asyncio.sleep to the next: each action below is   *)
(* one such stretch of a handler.                                          *)
(***************************************************************************)
EXTENDS Integers, Sequences, FiniteSets, TLC

VARIABLES
    containers,   \* podman: names of the running containers
    tsUp,         \* containers whose tailscale agent is logged in
    req,          \* the HTTP requests being served, by slot
    tun,          \* the tunnel of SpecRelay
    scan          \* the scan of SpecFind

vars == <<containers, tsUp, req, tun, scan>>

(***************************************************************************)
(* Bounds                                                                  *)
(***************************************************************************)
NumIds == 1       \* browser ids in use
MaxReq == 1       \* HTTP requests served at the same time (Spec)
NumCallers == 2   \* concurrent connect calls for one browser (SpecAttach)

Letters == <<"a", "b", "c">>
BrowserIds == {<<Letters[i]>> : i \in 1..NumIds}
Requests == 1..MaxReq
Callers == 1..NumCallers

(***************************************************************************)
(* Strings are sequences of characters; "chromium-" is one token.          *)
(***************************************************************************)
PREFIX == "chromium-"
Whitespace == {" ", "\n"}
\* stdouts of `tailscale ip`: "4" and "6" stand for the text of an IPv4 and an
\* IPv6 address; the agent prints one address per line
Outputs ==
    {<<>>, <<"\n">>, <<"4", "\n">>, <<"4", "\n", "6", "\n">>, <<"\n", "4", "\n">>}

\* f"chromium-{browser_id}"
ContainerName(browser_id) == <<PREFIX>> \o browser_id

ContainerNames == {ContainerName(b) : b \in BrowserIds}

RECURSIVE LStrip(_)
LStrip(s) == IF s # <<>> /\ Head(s) \in Whitespace THEN LStrip(Tail(s)) ELSE s

RECURSIVE RStrip(_)
RStrip(s) ==
    IF s # <<>> /\ s[Len(s)] \in Whitespace THEN RStrip(SubSeq(s, 1, Len(s) - 1)) ELSE s

\* str.strip()
Strip(s) == RStrip(LStrip(s))

RECURSIVE FirstLine(_)
\* str.split("\n")[0]
FirstLine(s) ==
    IF s = <<>> \/ Head(s) = "\n" THEN <<>> ELSE <<Head(s)>> \o FirstLine(Tail(s))

(***************************************************************************)
(* The runtime command gateway.  A run is what subprocess.run produced:    *)
(* ok = exit status 0 (check=True raises CalledProcessError otherwise).    *)
(***************************************************************************)
\* the bug of giving up one attempt early
MAX_ATTEMPTS_connect_short == 3 - 1

MAX_ATTEMPTS_connect == 3

\* the bug of querying once more
MAX_ATTEMPTS_get_more == 3 + 1

MAX_ATTEMPTS_get == 3

\* the bug of answering from what requests in flight have seen
container_exists_cached(c) ==
    \/ c \in containers
    \/ \E r \in DOMAIN req :
          req[r].pc \notin {"idle", "done"} /\ ContainerName(req[r].id) = c

\* `podman container exists` exits 0 iff the container is there
container_exists(c) == c \in containers

\* what `podman exec c tailscale ip` can produce: it fails when the container is
\* gone (and may fail at any time); an address is printed only once logged in
TailscaleIpRuns(c, loggedIn) ==
    {[ok |-> FALSE, stdout |-> <<>>]} \cup
    {[ok |-> TRUE, stdout |-> o] :
        o \in IF c \notin containers THEN {}
              ELSE IF loggedIn THEN Outputs
              ELSE {o \in Outputs : \A i \in 1..Len(o) : o[i] \in Whitespace}}

\* the value get_tailscale_ip returns, or that it raised
get_tailscale_ip(run) ==
    IF run.ok /\ run.stdout # <<>>
    THEN [raised |-> FALSE, ip |-> FirstLine(Strip(run.stdout))]
    ELSE [raised |-> TRUE, ip |-> <<>>]

\* what `podman exec c tailscale up` can produce
TailscaleUpRuns(c) == {FALSE} \cup IF c \in containers THEN {TRUE} ELSE {}

\* setup_tailscale: True iff the command exited 0
setup_tailscale(run) == run

\* terminate_tailscale: True iff the command exited 0; never raises
terminate_tailscale(run) == run

\* the history read: "fail" (either command fails), "empty" stdout, or a time
LastActivityRuns(c) == {"fail"} \cup IF c \in containers THEN {"empty", "ts"} ELSE {}

\* the bug of letting the failure of the read out
get_container_last_activity_uncaught(run) ==
    [raised |-> run = "fail", value |-> IF run = "ts" THEN "ts" ELSE "absent"]

\* the value get_container_last_activity returns (None is "absent"); both
\* except clauses return None, so it never raises
get_container_last_activity(run) ==
    [raised |-> FALSE, value |-> IF run = "ts" THEN "ts" ELSE "absent"]

\* `podman run -d --rm --name c`: fails when the name is taken (or otherwise);
\* "ok" prints the container id, "ok_empty" is exit 0 with nothing printed
LaunchRuns(c) == {"fail"} \cup IF c \in containers THEN {} ELSE {"ok", "ok_empty"}

\* `podman kill c`
KillRuns(c) == {"fail"} \cup IF c \in containers THEN {"ok", "ok_empty"} ELSE {}

\* launch_container / kill_container raise unless exit 0 with output
launch_container_raises(run) == run # "ok"

kill_container_raises(run) == run # "ok"

(***************************************************************************)
(* Requests                                                                *)
(***************************************************************************)
Idle ==
    [op |-> "none", id |-> <<>>, pc |-> "idle",
     attempt |-> 0,      \* connect_browser_to_tailscale's loop variable
     upOk |-> FALSE,     \* setup_tailscale returned True
     gattempt |-> 0,     \* get_browser's loop variable
     seen |-> <<>>,      \* what the last `tailscale ip` printed, if it exited 0
     ran |-> FALSE,      \* a command other than `container exists` was issued
     origin |-> "none",  \* where the exception behind the response was raised
     logouts |-> <<>>,   \* what each `tailscale logout` issued returned
     hist |-> "none",    \* what the last history read did, if one was made
     steps |-> <<>>,     \* what each proxy command issued did, in order
     cmds |-> <<>>,      \* the agent commands issued, in order (a command
                         \* repeated with the same result is logged once)
     status |-> 0, detail |-> "", ip |-> <<>>, la |-> "absent"]

\* the log of agent commands after one more command
Logged(cmds, cmd) ==
    IF cmds # <<>> /\ cmds[Len(cmds)] = cmd THEN cmds ELSE Append(cmds, cmd)

NewRequest(op, id) == [Idle EXCEPT !.op = op, !.id = id, !.pc = "start"]

\* the response leaves the handler
Respond(rec, status, detail, ip, la) ==
    [rec EXCEPT !.pc = "done", !.gattempt = 0,
                !.status = status, !.detail = detail, !.ip = ip, !.la = la]

\* the bug of create_browser letting the attach's own error through
Propagate_passthrough(op, origin, status, detail) == <<status, detail>>

\* An HTTPException raised in `origin` on behalf of endpoint `op`, as the
\* client sees it: the `except Exception` of connect_browser_to_tailscale (312)
\* and of create_browser (234) catch HTTPException too and raise their own 500.
Propagate(op, origin, status, detail) ==
    IF op = "create" THEN <<500, "Unable to start browser">>
    ELSE IF op = "connect" /\ origin \in {"get_browser", "connect_try"}
    THEN <<500, "Unable to connect browser to Tailscale">>
    ELSE <<status, detail>>

Raise(rec, origin, status, detail) ==
    LET p == Propagate(rec.op, origin, status, detail)
    IN  Respond([rec EXCEPT !.origin = origin], p[1], p[2], <<>>, "absent")

\* the bug of a handler that forgets the guard
NotFound_unguarded_disconnect(op, c) == op # "disconnect" /\ ~container_exists(c)

\* the guard every session-scoped handler starts with (244, 262, 299, 327, 345)
NotFound(op, c) == ~container_exists(c)

\* one iteration of get_browser's loop (268-276), up to the sleep
GetIteration(rec, ipRun, laRun) ==
    LET r == get_tailscale_ip(ipRun)
        la == get_container_last_activity(laRun)
        rec1 == [rec EXCEPT !.ran = TRUE,
                            !.cmds = Logged(@, "ip"),
                            !.seen = IF ipRun.ok THEN ipRun.stdout ELSE <<>>,
                            !.hist = IF r.raised THEN "none" ELSE laRun]
    IN  IF ~r.raised /\ ~la.raised
        THEN Respond(rec1, 200, "ok", r.ip, la.value)
        ELSE [rec1 EXCEPT !.pc = "get_sleep"]

\* get_browser from its first line to its first sleep or its return
GetEntry(rec, ipRun, laRun) ==
    IF NotFound("get", ContainerName(rec.id))
    THEN Raise(rec, "get_browser", 404, "not found")
    ELSE GetIteration([rec EXCEPT !.gattempt = 0], ipRun, laRun)

\* connect_browser_to_tailscale from its first line to its first sleep, given
\* what its existence check found
ConnectEntryWith(rec, missing) ==
    IF missing
    THEN Raise(rec, "connect_pre", 404, "not found")
    ELSE [rec EXCEPT !.pc = "connect_sleep", !.attempt = 0]

ConnectEntry(rec) == ConnectEntryWith(rec, NotFound("connect", ContainerName(rec.id)))

(***************************************************************************)
(* The handlers                                                            *)
(***************************************************************************)
\* POST /api/v1/browsers/{id}
create_browser(r, id) ==
    /\ req[r].pc = "idle"
    /\ \E run \in LaunchRuns(ContainerName(id)),
          alive \in BOOLEAN :  \* the container has not exited (--rm removes it)
        LET rec == [NewRequest("create", id) EXCEPT !.ran = TRUE]
            c == ContainerName(id)
        IN  /\ containers' = IF run = "fail" \/ ~alive THEN containers
                             ELSE containers \cup {c}
            /\ req' = [req EXCEPT ![r] =
                  IF launch_container_raises(run)
                  THEN Raise(rec, "create", 500, "Unable to start browser")
                  ELSE ConnectEntryWith(rec, ~alive)]
    /\ UNCHANGED <<tsUp, tun, scan>>

\* the bug of answering "deleted" whatever kill_container did
DeleteStatus_swallow(run) == 200

\* the status delete_browser answers with once the container exists
DeleteStatus(run) == IF kill_container_raises(run) THEN 500 ELSE 200

\* DELETE /api/v1/browsers/{id}
delete_browser(r, id) ==
    /\ req[r].pc = "idle"
    /\ LET rec == NewRequest("delete", id)
           c == ContainerName(id)
       IN  IF NotFound("delete", c)
           THEN /\ req' = [req EXCEPT ![r] = Raise(rec, "delete", 404, "not found")]
                /\ UNCHANGED <<containers, tsUp>>
           ELSE \E run \in KillRuns(c) :
                /\ containers' = IF run = "fail" THEN containers ELSE containers \ {c}
                /\ tsUp' = IF run = "fail" THEN tsUp ELSE tsUp \ {c}
                /\ req' = [req EXCEPT ![r] =
                      Respond([rec EXCEPT !.ran = TRUE], DeleteStatus(run),
                              IF DeleteStatus(run) = 200 THEN "deleted"
                              ELSE "Unable to stop browser", <<>>, "absent")]
    /\ UNCHANGED <<tun, scan>>

\* GET /api/v1/browsers/{id}
get_browser(r, id) ==
    /\ req[r].pc = "idle"
    /\ \E ipRun \in TailscaleIpRuns(ContainerName(id), ContainerName(id) \in tsUp),
          laRun \in LastActivityRuns(ContainerName(id)) :
        req' = [req EXCEPT ![r] = GetEntry(NewRequest("get", id), ipRun, laRun)]
    /\ UNCHANGED <<containers, tsUp, tun, scan>>

\* get_browser resuming from asyncio.sleep(1) (276-280) into the next iteration
get_browser_retry(r) ==
    /\ req[r].pc = "get_sleep"
    /\ LET rec == req[r]
           c == ContainerName(rec.id)
       IN  IF rec.gattempt + 1 = MAX_ATTEMPTS_get
           THEN req' = [req EXCEPT ![r] =
                    Raise(rec, "get_browser", 500, "Unable to get Tailscale IP address")]
           ELSE \E ipRun \in TailscaleIpRuns(c, c \in tsUp), laRun \in LastActivityRuns(c) :
                req' = [req EXCEPT ![r] =
                    GetIteration([rec EXCEPT !.gattempt = @ + 1], ipRun, laRun)]
    /\ UNCHANGED <<containers, tsUp, tun, scan>>

\* POST /api/v1/browsers/{id}/connect
connect_browser(r, id) ==
    /\ req[r].pc = "idle"
    /\ req' = [req EXCEPT ![r] = ConnectEntry(NewRequest("connect", id))]
    /\ UNCHANGED <<containers, tsUp, tun, scan>>

\* connect_browser_to_tailscale resuming from asyncio.sleep(1) (306-311)
connect_browser_to_tailscale(r) ==
    /\ req[r].pc = "connect_sleep"
    /\ \E upRun \in TailscaleUpRuns(ContainerName(req[r].id)) :
       LET rec == [req[r] EXCEPT !.ran = TRUE,
                                 !.cmds = Logged(@, IF setup_tailscale(upRun)
                                                    THEN "up_ok" ELSE "up_failed")]
           c == ContainerName(rec.id)
       IN  IF setup_tailscale(upRun)
           THEN /\ tsUp' = tsUp \cup {c}
                /\ \E ipRun \in TailscaleIpRuns(c, TRUE),
                      laRun \in LastActivityRuns(c) :
                    req' = [req EXCEPT ![r] =
                        GetEntry([rec EXCEPT !.upOk = TRUE], ipRun, laRun)]
           ELSE /\ tsUp' = tsUp
                /\ req' = [req EXCEPT ![r] =
                      IF rec.attempt + 1 = MAX_ATTEMPTS_connect
                      THEN Raise(rec, "connect_try", 500, "Unable to setup Tailscale")
                      ELSE [rec EXCEPT !.attempt = @ + 1]]
    /\ UNCHANGED <<containers, tun, scan>>

\* the bug of failing the request when the logout fails
DisconnectStatus_strict(loggedOut) == IF loggedOut THEN 200 ELSE 500

\* the status disconnect_browser answers with once the container exists: the
\* value of terminate_tailscale is dropped (332-334)
DisconnectStatus(loggedOut) == 200

\* POST /api/v1/browsers/{id}/disconnect
disconnect_browser(r, id) ==
    /\ req[r].pc = "idle"
    /\ LET rec == NewRequest("disconnect", id)
           c == ContainerName(id)
       IN  IF NotFound("disconnect", c)
           THEN /\ req' = [req EXCEPT ![r] = Raise(rec, "disconnect", 404, "not found")]
                /\ tsUp' = tsUp
           ELSE \E run \in {TRUE, FALSE} :
                /\ tsUp' = IF terminate_tailscale(run) THEN tsUp \ {c} ELSE tsUp
                /\ req' = [req EXCEPT ![r] =
                      LET status == DisconnectStatus(terminate_tailscale(run))
                      IN  Respond([rec EXCEPT !.ran = TRUE,
                                              !.logouts = Append(@, run)],
                                  status,
                                  IF status = 200 THEN "disconnected"
                                  ELSE "Unable to disconnect browser",
                                  <<>>, "absent")]
    /\ UNCHANGED <<containers, tun, scan>>

\* the proxy commands of configure_container (164-193), in order
ProxyCommands == <<"sed_delete", "sed_append", "pkill", "tinyproxy">>

\* how a run_podman call fails: "exit" is a non-zero exit status
\* (CalledProcessError), "oserror" any other exception of subprocess.run
StepFailures == {"exit", "oserror"}

\* the proxy commands configure_container issues and what each did: none
\* without address or proxy_url; the first failure leaves the try block
ProxySteps(ipRun, proxy_url, failedStep, how) ==
    IF get_tailscale_ip(ipRun).raised \/ ~proxy_url THEN <<>>
    ELSE [i \in 1..(IF failedStep = 0 THEN Len(ProxyCommands) ELSE failedStep) |->
            [cmd |-> ProxyCommands[i],
             did |-> IF i = failedStep THEN how ELSE "ok"]]

\* configure_container: the address query, then the four proxy commands when
\* the config has a proxy_url; failedStep = 0 when none fails.  A
\* CalledProcessError is raised again (195-196), another exception is only
\* printed (197-198)
configure_container_raises(ipRun, proxy_url, failedStep, how) ==
    \/ get_tailscale_ip(ipRun).raised
    \/ proxy_url /\ failedStep > 0 /\ how = "exit"

\* POST /api/v1/browsers/{id}/configure
configure_browser(r, id) ==
    /\ req[r].pc = "idle"
    /\ LET rec == NewRequest("configure", id)
           c == ContainerName(id)
       IN  IF NotFound("configure", c)
           THEN req' = [req EXCEPT ![r] = Raise(rec, "configure", 404, "not found")]
           ELSE \E ipRun \in TailscaleIpRuns(c, c \in tsUp), proxy_url \in BOOLEAN,
                   failedStep \in 0..Len(ProxyCommands), how \in StepFailures :
                req' = [req EXCEPT ![r] =
                    LET rec1 == [rec EXCEPT !.ran = TRUE,
                                   !.steps = ProxySteps(ipRun, proxy_url,
                                                        failedStep, how)]
                    IN  IF configure_container_raises(ipRun, proxy_url,
                                                      failedStep, how)
                        THEN Raise(rec1, "configure", 500, "Unable to configure browser")
                        ELSE Respond(rec1, 200, "configured", <<>>, "absent")]
    /\ UNCHANGED <<containers, tsUp, tun, scan>>

\* f"http://{ip_address}:9222"
CdpUrl(ip_address) == <<"http://">> \o ip_address \o <<":9222">>

\* the JSON body of the response: the dict a handler returns (251, 274, 334,
\* 352; create and connect return what get_browser returned), or FastAPI's
\* {"detail": ...} for an HTTPException
ResponseBody(rec) ==
    IF rec.status # 200 THEN [detail |-> rec.detail]
    ELSE IF rec.op = "delete"
    THEN [container_name |-> ContainerName(rec.id), status |-> "deleted"]
    ELSE IF rec.op = "disconnect" THEN [status |-> "disconnected"]
    ELSE IF rec.op = "configure" THEN [status |-> "configured"]
    ELSE [ip_address |-> rec.ip, cdp_url |-> CdpUrl(rec.ip),
          last_activity_timestamp |-> rec.la]

\* the response has been delivered; the slot serves the next request
Forget(r) ==
    /\ req[r].pc = "done"
    /\ req' = [req EXCEPT ![r] = Idle]
    /\ UNCHANGED <<containers, tsUp, tun, scan>>

\* a container is removed out-of-band (it exits, or an operator removes it)
RemovedOutOfBand(c) ==
    /\ c \in containers
    /\ containers' = containers \ {c}
    /\ tsUp' = tsUp \ {c}
    /\ UNCHANGED <<req, tun, scan>>

InitTun == [st |-> "unused"]
InitScan == [st |-> "unused"]

Init ==
    /\ containers = {}
    /\ tsUp = {}
    /\ req = [r \in Requests |-> Idle]
    /\ tun = InitTun
    /\ scan = InitScan

Next ==
    \/ \E r \in Requests, id \in BrowserIds : create_browser(r, id)
    \/ \E r \in Requests, id \in BrowserIds : delete_browser(r, id)
    \/ \E r \in Requests, id \in BrowserIds : get_browser(r, id)
    \/ \E r \in Requests : get_browser_retry(r)
    \/ \E r \in Requests, id \in BrowserIds : connect_browser(r, id)
    \/ \E r \in Requests : connect_browser_to_tailscale(r)
    \/ \E r \in Requests, id \in BrowserIds : disconnect_browser(r, id)
    \/ \E r \in Requests, id \in BrowserIds : configure_browser(r, id)
    \/ \E r \in Requests : Forget(r)
    \/ \E c \in ContainerNames : RemovedOutOfBand(c)

Spec == Init /\ [][Next]_vars

(***************************************************************************)
(* SpecAttach: NumCallers clients call POST .../connect for the same       *)
(* browser, whose container is running.                                    *)
(***************************************************************************)
AttachId == <<Letters[1]>>

InitAttach ==
    /\ containers = {ContainerName(AttachId)}
    /\ tsUp = {}
    /\ req = [r \in Callers |-> Idle]
    /\ tun = InitTun
    /\ scan = InitScan

NextAttach ==
    \/ \E r \in Callers : connect_browser(r, AttachId)
    \/ \E r \in Callers : connect_browser_to_tailscale(r)
    \/ \E r \in Callers : get_browser_retry(r)
    \/ RemovedOutOfBand(ContainerName(AttachId))

SpecAttach == InitAttach /\ [][NextAttach]_vars

(***************************************************************************)
(* SpecLive: NumCallers clients each send one session-scoped request for a *)
(* browser that was running, while its container may be removed.           *)
(***************************************************************************)
NextLive ==
    \/ \E r \in Callers : get_browser(r, AttachId)
    \/ \E r \in Callers : delete_browser(r, AttachId)
    \/ \E r \in Callers : connect_browser(r, AttachId)
    \/ \E r \in Callers : disconnect_browser(r, AttachId)
    \/ \E r \in Callers : configure_browser(r, AttachId)
    \/ \E r \in Callers : get_browser_retry(r)
    \/ \E r \in Callers : connect_browser_to_tailscale(r)
    \/ RemovedOutOfBand(ContainerName(AttachId))

SpecLive == InitAttach /\ [][NextLive]_vars

(***************************************************************************)
(* SpecRelay: one tunnel.  websocket_proxy (kind "cdp") relays websocket   *)
(* frames between the client and the browser's debugger; websockify_proxy  *)
(* (kind "vnc") relays byte chunks between the client and port 5900.       *)
(* Frame n of a direction is the n-th one its sender sent; cRead and bRead *)
(* count the frames the pumps have taken from each side.                   *)
(***************************************************************************)
MaxFrames == 2    \* frames each side sends

TunnelKinds == {"cdp", "vnc"}

\* what a client can send on a websocket
ClientFrameKinds == {"text", "bytes"}

\* what the backend sends: websocket messages (str, bytes that decode, bytes
\* that do not), or raw chunks of the VNC stream
BackendFrameKinds(kind) ==
    IF kind = "cdp" THEN {"text", "bytes", "badbytes"} ELSE {"bytes"}

Accepted(kind) ==
    [st |-> "connecting", kind |-> kind, closeCode |-> 0,
     clientOpen |-> TRUE,            \* the client has not closed its socket
     client_state |-> "CONNECTED",   \* client_ws.client_state
     backendUp |-> TRUE,             \* the backend has not closed the connection
     conn |-> "none",                \* remote_ws / (reader, writer)
     c2r |-> "idle", r2c |-> "idle", \* client_to_remote / ws_to_vnc, and back
     cSent |-> <<>>, cRead |-> 0, toBackend |-> <<>>,
     bSent |-> <<>>, bRead |-> 0, toClient |-> <<>>,
     events |-> <<"accept">>]        \* what the endpoint has done, in order

InitRelay ==
    /\ containers = {}
    /\ tsUp = {}
    /\ req = [r \in Requests |-> Idle]
    /\ tun \in {Accepted(k) : k \in TunnelKinds}
    /\ scan = InitScan

\* websockets.connect (433) / asyncio.open_connection (586)
RelayConnect ==
    /\ tun.st = "connecting"
    /\ \/ tun' = [tun EXCEPT !.st = "relay", !.conn = "open",
                             !.c2r = "running", !.r2c = "running",
                             !.events = Append(@, "connect")]
       \* OSError: close 4502; another exception: close 4500 (474-481);
       \* websockify_proxy: websocket.close() (587-589)
       \/ \E code \in IF tun.kind = "cdp" THEN {4502, 4500} ELSE {1000} :
            tun' = [tun EXCEPT !.st = "closed", !.clientOpen = FALSE,
                               !.client_state = "DISCONNECTED",
                               !.closeCode = code,
                               !.events = Append(@, "connect")]
    /\ UNCHANGED <<containers, tsUp, req, scan>>

ClientSend ==
    /\ tun.st \in {"connecting", "relay"}
    /\ tun.clientOpen
    /\ Len(tun.cSent) < MaxFrames
    /\ \E k \in ClientFrameKinds :
        tun' = [tun EXCEPT !.cSent = Append(@, [n |-> Len(@) + 1, kind |-> k])]
    /\ UNCHANGED <<containers, tsUp, req, scan>>

ClientClose ==
    /\ tun.st \in {"connecting", "relay"}
    /\ tun.clientOpen
    /\ tun' = [tun EXCEPT !.clientOpen = FALSE]
    /\ UNCHANGED <<containers, tsUp, req, scan>>

BackendSend ==
    /\ tun.st = "relay"
    /\ tun.backendUp /\ tun.conn = "open"
    /\ Len(tun.bSent) < MaxFrames
    /\ \E k \in BackendFrameKinds(tun.kind) :
        tun' = [tun EXCEPT !.bSent = Append(@, [n |-> Len(@) + 1, kind |-> k])]
    /\ UNCHANGED <<containers, tsUp, req, scan>>

BackendClose ==
    /\ tun.st = "relay"
    /\ tun.backendUp /\ tun.conn = "open"
    /\ tun' = [tun EXCEPT !.backendUp = FALSE]
    /\ UNCHANGED <<containers, tsUp, req, scan>>

\* the client-side receive has something to return: a frame or the disconnect
ClientReadable == tun.cRead < Len(tun.cSent) \/ ~tun.clientOpen

\* the backend-side read has something to return: a frame, or the end
BackendReadable ==
    tun.bRead < Len(tun.bSent) \/ ~tun.backendUp \/ tun.conn = "closed"

\* client_to_remote (438-446): one turn of its loop
client_to_remote ==
    /\ tun.st = "relay" /\ tun.kind = "cdp" /\ tun.c2r = "running"
    /\ ClientReadable
    /\ IF tun.cRead < Len(tun.cSent)
       THEN LET f == tun.cSent[tun.cRead + 1]
            IN  IF f.kind = "text" /\ tun.backendUp
                THEN \* receive_text, remote_ws.send
                     tun' = [tun EXCEPT !.cRead = @ + 1,
                                        !.toBackend = Append(@, f)]
                ELSE \* KeyError of receive_text on a bytes frame, or
                     \* ConnectionClosed of send: except Exception, return
                     tun' = [tun EXCEPT !.cRead = @ + 1, !.c2r = "done"]
       ELSE \* WebSocketDisconnect
            tun' = [tun EXCEPT !.client_state = "DISCONNECTED", !.c2r = "done"]
    /\ UNCHANGED <<containers, tsUp, req, scan>>

\* message if isinstance(message, str) else message.decode()
Decode(f) == [f EXCEPT !.kind = "text"]

\* the bug of going on to the next message
NotConnected_continue == "running"

\* remote_to_client finding the client not CONNECTED: break (453-455)
NotConnected == "done"

\* remote_to_client (448-459): one turn of its loop
remote_to_client ==
    /\ tun.st = "relay" /\ tun.kind = "cdp" /\ tun.r2c = "running"
    /\ BackendReadable
    /\ IF tun.bRead < Len(tun.bSent)
       THEN LET m == tun.bSent[tun.bRead + 1]
            IN  IF tun.client_state # "CONNECTED"
                THEN tun' = [tun EXCEPT !.bRead = @ + 1, !.r2c = NotConnected]
                ELSE IF m.kind # "badbytes" /\ tun.clientOpen
                THEN tun' = [tun EXCEPT !.bRead = @ + 1,
                                        !.toClient = Append(@, Decode(m))]
                ELSE \* UnicodeDecodeError of decode, or the error of
                     \* send_text on a closed socket: except Exception
                     tun' = [tun EXCEPT !.bRead = @ + 1, !.r2c = "done"]
       ELSE \* the iteration over remote_ws ends, or raises ConnectionClosed
            tun' = [tun EXCEPT !.r2c = "done"]
    /\ UNCHANGED <<containers, tsUp, req, scan>>

\* ws_to_vnc (591-598): one turn of its loop
ws_to_vnc ==
    /\ tun.st = "relay" /\ tun.kind = "vnc" /\ tun.c2r = "running"
    /\ ClientReadable
    /\ IF tun.cRead < Len(tun.cSent)
       THEN LET f == tun.cSent[tun.cRead + 1]
            IN  IF f.kind = "bytes" /\ tun.backendUp
                THEN \* receive_bytes, writer.write, drain
                     tun' = [tun EXCEPT !.cRead = @ + 1,
                                        !.toBackend = Append(@, f)]
                ELSE \* KeyError of receive_bytes on a text frame, or the error
                     \* of drain: writer.close()
                     \/ tun' = [tun EXCEPT !.cRead = @ + 1, !.c2r = "done",
                                           !.conn = "closed"]
                     \* or the write to a half-closed socket is accepted
                     \/ /\ f.kind = "bytes"
                        /\ tun' = [tun EXCEPT !.cRead = @ + 1]
       ELSE \* WebSocketDisconnect: writer.close()
            tun' = [tun EXCEPT !.client_state = "DISCONNECTED", !.c2r = "done",
                               !.conn = "closed"]
    /\ UNCHANGED <<containers, tsUp, req, scan>>

\* vnc_to_ws (600-608): one turn of its loop
vnc_to_ws ==
    /\ tun.st = "relay" /\ tun.kind = "vnc" /\ tun.r2c = "running"
    /\ BackendReadable
    /\ IF tun.bRead < Len(tun.bSent)
       THEN LET m == tun.bSent[tun.bRead + 1]
            IN  IF tun.clientOpen
                THEN tun' = [tun EXCEPT !.bRead = @ + 1, !.toClient = Append(@, m)]
                ELSE \* send_bytes raises: except Exception, pass
                     tun' = [tun EXCEPT !.bRead = @ + 1, !.r2c = "done"]
       ELSE \* reader.read returns b"": break
            tun' = [tun EXCEPT !.r2c = "done"]
    /\ UNCHANGED <<containers, tsUp, req, scan>>

\* asyncio.wait(tasks, return_when=asyncio.ALL_COMPLETED) (465) and
\* asyncio.gather (610) return when both pumps have finished
wait_returns(c2r, r2c) == c2r = "done" /\ r2c = "done"

\* the relay returns: nothing is pending, the `async with` closes remote_ws,
\* and the endpoint returning closes the client's websocket
RelayReturn ==
    /\ tun.st = "relay"
    /\ wait_returns(tun.c2r, tun.r2c)
    /\ tun' = [tun EXCEPT !.st = "closed", !.conn = "closed",
                          !.clientOpen = FALSE, !.client_state = "DISCONNECTED"]
    /\ UNCHANGED <<containers, tsUp, req, scan>>

\* what the relay can do without the client or the backend doing anything
C2RReady == tun.st = "relay" /\ tun.c2r = "running" /\ ClientReadable

R2CReady == tun.st = "relay" /\ tun.r2c = "running" /\ BackendReadable

ReturnReady == tun.st = "relay" /\ wait_returns(tun.c2r, tun.r2c)

\* the relay is running and waits for the client or the backend
RelayWaiting == tun.st = "relay" /\ ~C2RReady /\ ~R2CReady /\ ~ReturnReady

NextRelay ==
    \/ RelayConnect
    \/ ClientSend
    \/ ClientClose
    \/ BackendSend
    \/ BackendClose
    \/ client_to_remote
    \/ remote_to_client
    \/ ws_to_vnc
    \/ vnc_to_ws
    \/ RelayReturn

SpecRelay == InitRelay /\ [][NextRelay]_vars

(***************************************************************************)
(* SpecFind: find_browser_id(page_id) scanning one enumeration of the      *)
(* runtime.  A container name is a sequence of tokens; the podman listing  *)
(* may hold containers of other services.                                  *)
(***************************************************************************)
MaxIdLen == 2        \* tokens of a browser id
MaxContainers == 2   \* containers listed

IdTokens == {PREFIX, "a"}
ScanIds == UNION {[1..k -> IdTokens] : k \in 1..MaxIdLen}
ScanNames == {ContainerName(b) : b \in ScanIds} \cup {<<"other">>}
PageIds == {"p", "q"}

Range(f) == {f[i] : i \in DOMAIN f}

\* listings without repetition: podman names are unique
Listings ==
    UNION {{l \in [1..k -> ScanNames] : Cardinality(Range(l)) = k} :
           k \in 0..MaxContainers}

\* c.startswith("chromium-")
StartsWithPrefix(name) == name # <<>> /\ Head(name) = PREFIX

\* [c for c in containers if c.startswith("chromium-")]
ChromiumOnly(listing) == SelectSeq(listing, StartsWithPrefix)

\* c[len("chromium-"):]
StripPrefix(name) == Tail(name)

\* list_browsers (287-289): the ids the service enumerates
list_browsers(listing) ==
    [i \in 1..Len(ChromiumOnly(listing)) |-> StripPrefix(ChromiumOnly(listing)[i])]

\* container.replace("chromium-", ""): every occurrence is removed
ReplacePrefix(name) == SelectSeq(name, LAMBDA tok : tok # PREFIX)

\* get_cdp_url or the fetch of /json/list raises for this browser: there is
\* no such container, or its agent or its debugger does not answer
PageListFails(browser_id) ==
    LET c == ContainerName(browser_id)
    IN  c \notin Range(scan.listing) \/ ~scan.pages[c].ok

\* the bug of letting the failure out
get_page_list_uncaught(browser_id) ==
    [raised |-> PageListFails(browser_id),
     ids |-> IF PageListFails(browser_id) THEN {}
             ELSE scan.pages[ContainerName(browser_id)].ids]

\* get_page_list (405-417): the ids of /json/list of the browser's container;
\* `except Exception` returns [] when the address lookup or the fetch fails
get_page_list(browser_id) ==
    [raised |-> FALSE,
     ids |-> IF PageListFails(browser_id) THEN {}
             ELSE scan.pages[ContainerName(browser_id)].ids]

InitFind ==
    /\ tsUp = {}
    /\ req = [r \in Requests |-> Idle]
    /\ tun = InitTun
    /\ \E listing \in Listings :
        /\ containers = Range(listing)
        /\ \E pages \in [Range(listing) -> [ok : BOOLEAN, ids : SUBSET PageIds]],
              page_id \in PageIds :
            \* a page id (a target GUID of Chrome) is in one browser only
            /\ \A c1, c2 \in Range(listing) :
                  c1 # c2 => pages[c1].ids \cap pages[c2].ids = {}
            /\ scan = [st |-> "idle", listing |-> listing, pages |-> pages,
                    page_id |-> page_id, todo |-> <<>>,
                    found |-> FALSE, browser_id |-> <<>>, raised |-> FALSE]

\* containers = await list_containers() (421), which may raise
find_browser_id_list ==
    /\ scan.st = "idle"
    /\ \/ scan' = [scan EXCEPT !.st = "scanning",
                               !.todo = ChromiumOnly(scan.listing)]
       \/ scan' = [scan EXCEPT !.st = "done", !.raised = TRUE]
    /\ UNCHANGED <<containers, tsUp, req, tun>>

\* one turn of the loop of find_browser_id (422-426), or its end (428)
find_browser_id ==
    /\ scan.st = "scanning"
    /\ IF scan.todo = <<>>
       THEN scan' = [scan EXCEPT !.st = "done"]
       ELSE LET browser_id == ReplacePrefix(Head(scan.todo))
                page_ids == get_page_list(browser_id)
            IN  IF page_ids.raised
                THEN scan' = [scan EXCEPT !.st = "done", !.raised = TRUE]
                ELSE IF scan.page_id \in page_ids.ids
                THEN scan' = [scan EXCEPT !.st = "done", !.found = TRUE,
                                          !.browser_id = browser_id]
                ELSE scan' = [scan EXCEPT !.todo = Tail(@)]
    /\ UNCHANGED <<containers, tsUp, req, tun>>

NextFind ==
    \/ find_browser_id_list
    \/ find_browser_id

SpecFind == InitFind /\ [][NextFind]_vars

(***************************************************************************)
(* SpecTunnel: one tunnel request from the websocket handshake to the      *)
(* backend connection: /cdp/{browser_id}, /devtools/{path} (which scans    *)
(* the fleet with find_browser_id) and /websockify/{browser_id}.           *)
(***************************************************************************)
Routes == {"cdp", "devtools", "websockify"}

KindOf(route) == IF route = "websockify" THEN "vnc" ELSE "cdp"

\* the websocket handshake of a client has reached the endpoint
Requested(route, browser_id) ==
    [Accepted(KindOf(route)) EXCEPT !.st = "handshake", !.events = <<>>]
        @@ [route |-> route, browser_id |-> browser_id,
            cause |-> "none"]   \* why the endpoint gave up

InitTunnel ==
    /\ req = [r \in Requests |-> Idle]
    /\ \/ /\ containers \in SUBSET ContainerNames
          /\ tsUp \in SUBSET containers
          /\ scan = InitScan
          /\ tun \in {Requested(route, id) :
                        route \in {"cdp", "websockify"}, id \in BrowserIds}
       \/ \E listing \in Listings :
            /\ containers = Range(listing)
            /\ \E pages \in [Range(listing) -> [ok : BOOLEAN, ids : SUBSET PageIds]],
                  page_id \in PageIds :
                /\ \A c1, c2 \in Range(listing) :
                      c1 # c2 => pages[c1].ids \cap pages[c2].ids = {}
                /\ tsUp = {c \in Range(listing) : pages[c].ok}
                /\ scan = [st |-> "waiting", listing |-> listing, pages |-> pages,
                           page_id |-> page_id, todo |-> <<>>,
                           found |-> FALSE, browser_id |-> <<>>, raised |-> FALSE]
                /\ tun = Requested("devtools", <<>>)

\* the endpoint closes the client's websocket itself
Close(t, code, cause) ==
    [t EXCEPT !.st = "closed", !.closeCode = code, !.cause = cause,
              !.clientOpen = FALSE, !.client_state = "DISCONNECTED"]

\* an exception leaves the endpoint: the endpoint sends no close frame
Escape(t, cause) == [t EXCEPT !.st = "raised", !.cause = cause]

\* what urllib.request.urlopen(.../json/version) and the parse of its answer do
FetchRuns == {"ok", "fail"}

\* cdp_browser_websocket_proxy (485-498) up to asyncio.to_thread(fetch)
cdp_browser_websocket_proxy ==
    /\ tun.st = "handshake" /\ tun.route = "cdp"
    /\ LET c == ContainerName(tun.browser_id)
           t == [tun EXCEPT !.events = Append(@, "accept")]
       IN  IF ~container_exists(c)
           THEN tun' = Close(t, 1008, "absent")
           ELSE \E ipRun \in TailscaleIpRuns(c, c \in tsUp) :
                LET t1 == [t EXCEPT !.events = Append(@, "resolve")]
                IN  tun' = IF get_tailscale_ip(ipRun).raised
                           THEN Close(t1, 4502, "address")
                           ELSE [t1 EXCEPT !.st = "fetching"]
    /\ UNCHANGED <<containers, tsUp, req, scan>>

\* get_cdp_websocket_url's fetch returns or raises (378-384, 500-506)
get_cdp_websocket_url ==
    /\ tun.st = "fetching" /\ tun.route = "cdp"
    /\ \E run \in FetchRuns :
        tun' = IF run = "ok" THEN [tun EXCEPT !.st = "connecting"]
               ELSE Close(tun, 4502, "fetch")
    /\ UNCHANGED <<containers, tsUp, req, scan>>

\* cdp_devtools_websocket_proxy (511-525) up to its scan of the fleet
cdp_devtools_websocket_proxy ==
    /\ tun.st = "handshake" /\ tun.route = "devtools"
    /\ LET t == [tun EXCEPT !.events = Append(@, "accept")]
       IN  \E hasPageId \in BOOLEAN :
            IF hasPageId
            THEN /\ tun' = [t EXCEPT !.st = "finding",
                                     !.events = Append(@, "resolve")]
                 /\ scan' = [scan EXCEPT !.st = "idle"]
            ELSE /\ tun' = Close(t, 4000, "no_page_id")
                 /\ scan' = scan
    /\ UNCHANGED <<containers, tsUp, req>>

\* get_page_websocket_url (387-402): the page's debugger URL, or None when the
\* page is not listed or anything raises
PageUrls(browser_id, page_id) ==
{"None"} \cup IF page_id \in get_page_list(browser_id).ids THEN {"url"} ELSE {}

\* cdp_devtools_websocket_proxy once find_browser_id is over (525-541)
cdp_devtools_found ==
    /\ tun.st = "finding" /\ scan.st = "done"
    /\ IF scan.raised
       THEN \* list_containers raised inside find_browser_id: nothing catches it
            tun' = Escape(tun, "enumeration")
       ELSE IF ~scan.found
       THEN tun' = Close(tun, 4000, "no_session")
       ELSE LET c == ContainerName(scan.browser_id)
            IN  \E ipRun \in TailscaleIpRuns(c, c \in tsUp),
                   url \in PageUrls(scan.browser_id, scan.page_id) :
                 tun' = IF get_tailscale_ip(ipRun).raised
                        THEN \* line 532 is outside any try
                             Escape([tun EXCEPT !.browser_id = scan.browser_id],
                                    "address")
                        ELSE IF url = "None"
                        THEN Close([tun EXCEPT !.browser_id = scan.browser_id],
                                   4502, "fetch")
                        ELSE [tun EXCEPT !.st = "connecting",
                                         !.browser_id = scan.browser_id]
    /\ UNCHANGED <<containers, tsUp, req, scan>>

\* websockify_proxy (576-586) up to asyncio.open_connection
websockify_proxy ==
    /\ tun.st = "handshake" /\ tun.route = "websockify"
    /\ LET c == ContainerName(tun.browser_id)
           t == [tun EXCEPT !.events = Append(@, "resolve")]
       IN  \E ipRun \in TailscaleIpRuns(c, c \in tsUp) :
            LET target_ip == get_tailscale_ip(ipRun)
            IN  tun' = IF target_ip.raised
                       THEN Escape(t, "address")
                       ELSE IF target_ip.ip = <<>>
                       THEN \* websocket.close() before accept: handshake denied
                            [t EXCEPT !.st = "denied", !.cause = "address",
                                      !.clientOpen = FALSE,
                                      !.client_state = "DISCONNECTED"]
                       ELSE [t EXCEPT !.st = "connecting",
                                      !.events = Append(@, "accept")]
    /\ UNCHANGED <<containers, tsUp, req, scan>>

NextTunnel ==
    \/ cdp_browser_websocket_proxy
    \/ get_cdp_websocket_url
    \/ cdp_devtools_websocket_proxy
    \/ find_browser_id_list
    \/ find_browser_id
    \/ cdp_devtools_found
    \/ websockify_proxy
    \/ RelayConnect

SpecTunnel == InitTunnel /\ [][NextTunnel]_vars

(***************************************************************************)
(* Properties of the HTTP handlers                                         *)
(***************************************************************************)
Slots == DOMAIN req

Done(r) == req[r].pc = "done"

\* r's handler returns in this step
Returns(r) == req[r].pc # "done" /\ req'[r].pc = "done"

\* r's request arrives in this step
Arrives(r) == req[r].pc = "idle" /\ req'[r].pc # "idle"

SessionOps == {"get", "delete", "connect", "disconnect", "configure"}

\* the addresses a stdout holds, in order
Addresses(stdout) == SelectSeq(stdout, LAMBDA ch : ch \notin Whitespace)

\* C1: a create that answers 200 leaves the browser's container existing; a
\* delete that answers 200 leaves it not existing; and a GET arriving for a
\* browser without a container answers 404.
C1_CreateExistsDestroyGone ==
    [][\A r \in Slots :
        /\ (Returns(r) /\ req'[r].op = "create" /\ req'[r].status = 200)
              => ContainerName(req'[r].id) \in containers'
        /\ (Returns(r) /\ req'[r].op = "delete" /\ req'[r].status = 200)
              => ContainerName(req'[r].id) \notin containers'
        /\ (Arrives(r) /\ req'[r].op = "get"
                /\ ContainerName(req'[r].id) \notin containers)
              => (req'[r].pc = "done" /\ req'[r].status = 404)]_vars

C1_Witness ==
    \E r \in Slots :
        /\ Done(r) /\ req[r].op = "delete" /\ req[r].status = 200
        /\ ContainerName(req[r].id) \notin containers

\* C2: a get, delete, connect, disconnect or configure arriving for a browser
\* whose container does not exist answers 404 at once, having issued no command
\* but the existence check and changed nothing in the runtime or the agent.
C2_MissingIs404 ==
    [][\A r \in Slots :
        (Arrives(r) /\ req'[r].op \in SessionOps
            /\ ContainerName(req'[r].id) \notin containers)
        => /\ req'[r].pc = "done"
           /\ req'[r].status = 404
           /\ ~req'[r].ran
           /\ containers' = containers
           /\ tsUp' = tsUp]_vars

C2_Witness ==
    \E r \in Slots :
        /\ Done(r) /\ req[r].op = "configure" /\ req[r].status = 404
        /\ ~req[r].ran
        /\ ContainerName(req[r].id) \notin containers

\* r is inside connect_browser_to_tailscale, past the existence check
Attaching(r) ==
    /\ req[r].op \in {"connect", "create"}
    /\ req[r].pc \in {"connect_sleep", "get_sleep"}

\* C3: attach calls for one session that are in flight together run one
\* attachment: at most one of them has issued authentication commands.
C3_SingleFlight ==
    \A r1, r2 \in Slots :
        (r1 # r2 /\ req[r1].id = req[r2].id /\ Attaching(r1) /\ Attaching(r2))
        => ~(req[r1].ran /\ req[r2].ran)

\* C4: attach and get-session-info answer 200 only with a non-empty address
\* that the agent printed.
C4_NonEmptyAddress ==
    \A r \in Slots :
        (Done(r) /\ req[r].op \in {"get", "connect", "create"} /\ req[r].status = 200)
        => (req[r].ip # <<>> /\ Addresses(req[r].seen) # <<>>)

\* r's connect gave up after setup_tailscale failed MAX_ATTEMPTS times
AuthExhausted(r) ==
    /\ Done(r) /\ req[r].op = "connect"
    /\ req[r].ran /\ ~req[r].upOk

\* r's connect authenticated and failed afterwards, querying the address
AddressFailed(r) ==
    /\ Done(r) /\ req[r].op = "connect"
    /\ req[r].upOk /\ req[r].status # 200

\* C5: after three failed authentications attach stops (no fourth attempt) and
\* answers with a failure, neither 404 nor 200, that names the authentication
\* phase: no attach that failed in the address phase gets the same answer.
C5_AuthFailureNamed ==
    \A r \in Slots :
        AuthExhausted(r) =>
            /\ req[r].attempt = MAX_ATTEMPTS_connect - 1
            /\ req[r].status = 500
            /\ \A r2 \in Slots :
                  AddressFailed(r2) =>
                      <<req[r2].status, req[r2].detail>> # <<req[r].status, req[r].detail>>

\* C6: attach gives up only after the third failed authentication; and when
\* the first two fail, the third succeeds and the agent then prints an address,
\* attach answers 200 with that address.
C6_RetryThenSucceed ==
    \A r \in Slots :
        /\ AuthExhausted(r) => req[r].attempt = 2
        /\ (/\ Done(r) /\ req[r].op \in {"connect", "create"}
            /\ req[r].upOk /\ req[r].attempt = 2
            /\ Addresses(req[r].seen) # <<>>)
           => (req[r].status = 200 /\ req[r].ip = <<Addresses(req[r].seen)[1]>>)

C6_Witness ==
    \E r \in Slots :
        /\ Done(r) /\ req[r].op = "connect"
        /\ req[r].upOk /\ req[r].attempt = 2
        /\ req[r].status = 200 /\ req[r].ip = <<"4">>

\* r's attach was rejected by the existence check of
\* connect_browser_to_tailscale (299-302)
AttachRejected(r) ==
    /\ Done(r) /\ req[r].op \in {"connect", "create"}
    /\ req[r].origin = "connect_pre"

\* C13: an attach rejected because the container does not exist has issued no
\* authentication command, and the caller, of connect or of create, gets 404.
C13_AttachNotFound ==
    \A r \in Slots :
        AttachRejected(r) =>
            /\ req[r].attempt = 0 /\ ~req[r].upOk
            /\ req[r].status = 404

\* C14: a detach answers 404 without issuing the logout command, or issues
\* it exactly once and answers 200 whether the command succeeded or failed.
C14_DetachBestEffort ==
    \A r \in Slots :
        (Done(r) /\ req[r].op = "disconnect") =>
            \/ req[r].status = 404 /\ req[r].logouts = <<>>
            \/ req[r].status = 200 /\ Len(req[r].logouts) = 1

C14_Witness ==
    \E r \in Slots :
        /\ Done(r) /\ req[r].op = "disconnect"
        /\ req[r].logouts = <<FALSE>>
        /\ req[r].status = 200 /\ req[r].detail = "disconnected"

\* C15: the existence check of a session-scoped request reports the runtime
\* as it is when the request arrives: the request is answered 404 exactly when
\* the container is not there, whatever earlier requests have seen.
C15_ExistsIsLive ==
    [][\A r \in Slots :
        (Arrives(r) /\ req'[r].op \in SessionOps)
        => ((req'[r].pc = "done" /\ req'[r].status = 404)
              <=> ContainerName(req'[r].id) \notin containers)]_vars

\* a request that saw the container is still in flight, the container is gone,
\* and a later request has been answered 404
C15_Witness ==
    \E r1, r2 \in Slots :
        /\ req[r1].pc \in {"connect_sleep", "get_sleep"}
        /\ ContainerName(req[r1].id) \notin containers
        /\ req[r2].id = req[r1].id
        /\ Done(r2) /\ req[r2].op \in SessionOps \ {"connect"}
        /\ req[r2].status = 404

\* the HTTP status of a conflict
CONFLICT == 409

\* C16: a create arriving for a browser whose container exists is answered
\* with a conflict without issuing the launch command, and the runtime and
\* the agent are left as they were.
C16_DuplicateCreateConflict ==
    [][\A r \in Slots :
        (Arrives(r) /\ req'[r].op = "create"
            /\ ContainerName(req'[r].id) \in containers)
        => /\ req'[r].pc = "done"
           /\ req'[r].status = CONFLICT
           /\ ~req'[r].ran
           /\ containers' = containers
           /\ tsUp' = tsUp]_vars

\* C17: a create answered 200 has a body whose "status" is "created".
C17_CreatedStatus ==
    \A r \in Slots :
        (Done(r) /\ req[r].op = "create" /\ req[r].status = 200)
        => /\ "status" \in DOMAIN ResponseBody(req[r])
           /\ ResponseBody(req[r]).status = "created"

\* C18: a get-session-info makes at most 3 address queries; it answers 500
\* only when the third query has failed; it never goes on querying once a
\* query printed an address, and answers 200 with that address; it issues no
\* authentication command and leaves the agent as it was.
C18_GetQueriesThrice ==
    [][\A r \in Slots :
        (req'[r].op = "get" /\ req'[r] # req[r]) =>
            /\ req'[r].gattempt <= 2
            /\ (Returns(r) /\ req'[r].status = 500)
                  => (req[r].pc = "get_sleep" /\ req[r].gattempt = 2)
            /\ Addresses(req'[r].seen) # <<>>
                  => /\ Returns(r) /\ req'[r].status = 200
                     /\ req'[r].ip = <<Addresses(req'[r].seen)[1]>>
            /\ ~req'[r].upOk /\ req'[r].attempt = 0
            /\ tsUp' = tsUp]_vars

C18_Witness ==
    \E r \in Slots :
        /\ Done(r) /\ req[r].op = "get"
        /\ req[r].status = 500 /\ req[r].origin = "get_browser"
        /\ ContainerName(req[r].id) \in containers

\* C20: when get_browser has the address and the history read fails, the
\* request is answered 200 with a body whose last_activity_timestamp is null.
C20_LastActivityAdvisory ==
    \A r \in Slots :
        req[r].hist = "fail" =>
            /\ Done(r) /\ req[r].status = 200
            /\ "last_activity_timestamp" \in DOMAIN ResponseBody(req[r])
            /\ ResponseBody(req[r]).last_activity_timestamp = "absent"

C20_Witness ==
    \E r \in Slots :
        /\ Done(r) /\ req[r].op = "get" /\ req[r].hist = "fail"
        /\ req[r].status = 200 /\ req[r].ip = <<"4">> /\ req[r].la = "absent"

\* the positions of the proxy commands of r that failed
FailedSteps(r) ==
    {i \in 1..Len(req[r].steps) : req[r].steps[i].did # "ok"}

\* C21: when a proxy command of a configure fails, the request is answered
\* 500; the commands before it were applied, in the order of the sequence,
\* and no command, later step or undo, is issued after it.
C21_PartialConfigReported ==
    \A r \in Slots :
        (Done(r) /\ req[r].op = "configure" /\ FailedSteps(r) # {}) =>
            /\ req[r].status = 500
            /\ FailedSteps(r) = {Len(req[r].steps)}
            /\ \A i \in 1..Len(req[r].steps) :
                  req[r].steps[i].cmd = ProxyCommands[i]

\* C22: an attach whose authentication succeeded and whose address queries
\* then all failed does not fail before its three authentication attempts are
\* used: it fails only in the third attempt.
C22_IpTimeoutRetriesAuth ==
    \A r \in Slots :
        (/\ Done(r) /\ req[r].op \in {"connect", "create"}
         /\ req[r].upOk /\ req[r].origin = "get_browser")
        => req[r].attempt = MAX_ATTEMPTS_connect - 1

\* the agent commands that authenticate
AuthCommands == {"up_ok", "up_failed"}

\* C23: in an attach every authentication command comes after a command that
\* observed the agent daemon responding, and every address query comes after
\* an authentication command that succeeded.
C23_PhaseOrder ==
    \A r \in Slots :
        req[r].op \in {"connect", "create"} =>
            \A i \in 1..Len(req[r].cmds) :
                /\ req[r].cmds[i] \in AuthCommands
                      => \E j \in 1..(i - 1) :
                            req[r].cmds[j] \notin AuthCommands \cup {"ip"}
                /\ req[r].cmds[i] = "ip"
                      => \E j \in 1..(i - 1) : req[r].cmds[j] = "up_ok"

\* r's create launched the container and its attach then failed
CreateAttachFailed(r) ==
    /\ req[r].op = "create" /\ req[r].pc = "done"
    /\ req[r].origin \in {"connect_try", "get_browser"}

\* C24: a create whose attach fails after the launch answers 500 "Unable to
\* start browser" and removes no container; and a create arriving for a
\* browser whose container exists fails at launch, leaving the container.
C24_FailedCreateLeavesContainer ==
    [][\A r \in Slots :
        /\ (Returns(r) /\ CreateAttachFailed(r)')
              => /\ req'[r].status = 500
                 /\ req'[r].detail = "Unable to start browser"
                 /\ containers' = containers
        /\ (Arrives(r) /\ req'[r].op = "create"
                /\ ContainerName(req'[r].id) \in containers)
              => /\ req'[r].pc = "done" /\ req'[r].status = 500
                 /\ req'[r].origin = "create" /\ req'[r].cmds = <<>>
                 /\ containers' = containers]_vars

C24_Witness ==
    \E r \in Slots :
        /\ CreateAttachFailed(r)
        /\ req[r].status = 500
        /\ ContainerName(req[r].id) \in containers

(***************************************************************************)
(* Properties of the tunnel relay                                          *)
(***************************************************************************)
\* C7: once a pump of a tunnel has finished, the relay does not stay waiting
\* for the client or the backend: it goes on to end the other pump and return.
C7_HalfDeathEndsRelay ==
    (tun.st = "relay" /\ (tun.c2r = "done" \/ tun.r2c = "done")) => ~RelayWaiting

\* C8: when the client's connection is closed and the relay has nothing left to
\* do but wait for a backend frame, the backend connection has been released.
C8_ClientGoneReleasesBackend ==
    (tun.st = "relay" /\ ~tun.clientOpen /\ RelayWaiting) => tun.conn # "open"

\* the frame numbers of a sequence of frames
Numbers(frames) == [i \in 1..Len(frames) |-> frames[i].n]

IsPrefix(s, t) == Len(s) <= Len(t) /\ s = SubSeq(t, 1, Len(s))

\* C9: in each direction the frames delivered are the frames sent, in order,
\* none twice; and when both sides are still connected and the relay waits
\* for them, every frame sent has been delivered.
C9_FramesInOrder ==
    tun.st \in {"relay", "closed"} =>
        /\ IsPrefix(Numbers(tun.toBackend), Numbers(tun.cSent))
        /\ IsPrefix(Numbers(tun.toClient), Numbers(tun.bSent))
        /\ (tun.clientOpen /\ tun.backendUp /\ tun.conn = "open" /\ RelayWaiting)
            => /\ Numbers(tun.toBackend) = Numbers(tun.cSent)
               /\ Numbers(tun.toClient) = Numbers(tun.bSent)

\* every `later` event of the tunnel comes after an `earlier` one
Precedes(earlier, later) ==
    \A i \in 1..Len(tun.events) :
        tun.events[i] = later => \E j \in 1..(i - 1) : tun.events[j] = earlier

\* C11: in every tunnel request the client is accepted before the backend
\* address is resolved and before the backend connection is opened, and the
\* backend connection is opened at most once.
C11_AcceptFirst ==
    tun.st # "unused" =>
        /\ Precedes("accept", "resolve")
        /\ Precedes("accept", "connect")
        /\ Cardinality({i \in 1..Len(tun.events) : tun.events[i] = "connect"}) <= 1

\* the close codes of the debug tunnels
POLICY_VIOLATION == 1008
NOT_FOUND == 4000
REMOTE_UNREACHABLE == 4502
INTERNAL_ERROR == 4500

\* the tunnel request has ended without a relay
TunnelFailed == tun.st \in {"closed", "raised", "denied"}

\* C12: a debug-tunnel request that fails after accept ends with the client
\* closed by the handler with the code of the failure: 1008 for an absent
\* session (not-found for a page without session), remote-unreachable when
\* the address lookup or the debugger URL fetch fails, remote-unreachable or
\* internal-error when the backend connection fails; no exception escapes.
C12_FailureHasCloseCode ==
    (tun.st # "unused" /\ tun.route \in {"cdp", "devtools"} /\ TunnelFailed) =>
        /\ tun.st = "closed"
        /\ tun.cause = "absent" => tun.closeCode = POLICY_VIOLATION
        /\ tun.cause \in {"no_page_id", "no_session"}
              => tun.closeCode \in {POLICY_VIOLATION, NOT_FOUND}
        /\ tun.cause \in {"address", "fetch"} => tun.closeCode = REMOTE_UNREACHABLE
        /\ tun.cause \in {"none", "enumeration"}
              => tun.closeCode \in {REMOTE_UNREACHABLE, INTERNAL_ERROR}

\* C25: in a debug tunnel, once client_state is no longer CONNECTED nothing
\* more is sent to the client, and the pump from the backend stops at the
\* next backend message it receives.
C25_NoSendAfterDisconnect ==
    [][(tun.st = "relay" /\ tun.kind = "cdp" /\ tun.client_state # "CONNECTED") =>
        /\ tun'.toClient = tun.toClient
        /\ tun'.bRead > tun.bRead => tun'.r2c = "done"]_vars

\* a well-formed backend message was received after the disconnect and dropped
C25_Witness ==
    /\ tun.st = "relay" /\ tun.kind = "cdp"
    /\ tun.client_state = "DISCONNECTED" /\ tun.r2c = "done"
    /\ tun.bRead = 1 /\ tun.bSent[1].kind = "text" /\ tun.toClient = <<>>
    /\ tun.cRead = 0 /\ tun.cSent = <<>>

(***************************************************************************)
(* Properties of the page scan                                             *)
(***************************************************************************)
\* the positions, in enumeration order, of the sessions whose page list holds
\* the page searched
Holders ==
    {i \in 1..Len(list_browsers(scan.listing)) :
        scan.page_id \in get_page_list(list_browsers(scan.listing)[i]).ids}

\* C10: find_browser_id returns None when no enumerated session lists the
\* page, and otherwise the first enumerated session that lists it, which is
\* one of the enumerated ids.
C10_FirstSessionWithPage ==
    (scan.st = "done" /\ ~scan.raised) =>
        IF Holders = {}
        THEN ~scan.found
        ELSE /\ scan.found
             /\ \E i \in Holders :
                    /\ \A j \in Holders : i <= j
                    /\ scan.browser_id = list_browsers(scan.listing)[i]
             /\ scan.browser_id \in Range(list_browsers(scan.listing))

\* C19: no turn of the scan raises; a session whose address lookup or page
\* list fetch fails is skipped, and the scan goes on with the sessions left.
C19_PageListNeverRaises ==
    [][(scan.st = "scanning" /\ scan.todo # <<>>) =>
        /\ ~scan'.raised
        /\ PageListFails(ReplacePrefix(Head(scan.todo)))
              => (scan'.st = "scanning" /\ scan'.todo = Tail(scan.todo))]_vars

\* the page was found in a session enumerated after one whose fetch failed
C19_Witness ==
    /\ scan.st = "done" /\ scan.found
    /\ \E i, j \in 1..Len(scan.listing) :
        /\ i < j
        /\ StartsWithPrefix(scan.listing[i])
        /\ PageListFails(ReplacePrefix(scan.listing[i]))
        /\ scan.listing[j] = ContainerName(scan.browser_id)

====
